---- MODULE Spec2Model ----
(***************************************************************************)
(* Model of the OPT/STEM unemployment tracker: utils/calculator.ts, the     *)
(* calendar export, the employment form and the App component's buttons.   *)
(*                                                                         *)
(* A Date is a natural number of clock ticks; a calendar day has           *)
(* TicksPerDay ticks, so a Date carries a time of day that startOfDay      *)
(* removes.  A missing value (null) is the record Null; an absent end date *)
(* of an employment span is NoDate.  A percentage is kept as the exact     *)
(* fraction num/den (the code computes the same quotient in floating       *)
(* point).  An employer name is a sequence of characters.                  *)
(*                                                                         *)
(* Spec       calculateUnemployment over a long calendar (days 0, 1,       *)
(*            MidDay, FarDay) while the clock moves on day by day.         *)
(* SpecDense  the same over every day of a short calendar, with up to two  *)
(*            employment spans entered at any time of day.                 *)
(* SpecClamp  clampSpanToEAD called on its own.                            *)
(* SpecMerge  mergeOverlappingSpans called on its own.                     *)
(* SpecValidate  validateEmploymentSpan and validateEADPeriod called on    *)
(*            their own, on well-formed and malformed input.               *)
(* SpecAdd    calculateUnemployment run again after one more span is       *)
(*            entered, at an unchanged reference date.                     *)
(* SpecICS    createUnemploymentICS called on its own.                     *)
(* SpecForm   the employment form of InputForm on top of the store.        *)
(* SpecApp    copySummary and exportDeadlines of App with their timers.    *)
(***************************************************************************)
EXTENDS Integers, Sequences, FiniteSets

VARIABLES
    optPeriod,        \* store.optPeriod: EADPeriod | null
    stemPeriod,       \* store.stemPeriod: EADPeriod | null
    employmentSpans,  \* store.employmentSpans: EmploymentSpan[]
    now,              \* the wall clock, new Date()
    result,           \* the last CalculationResult | null, Pending before the first
    cSpan,            \* clampSpanToEAD: argument span
    cPeriod,          \* clampSpanToEAD: argument eadPeriod
    cRef,             \* clampSpanToEAD: argument referenceDate
    cOut,             \* clampSpanToEAD: returned value
    mIn,              \* mergeOverlappingSpans: argument spans
    mOut,             \* mergeOverlappingSpans: returned value
    pc,               \* "ready" before a direct call of a helper, "done" after it
    vSpan,            \* validateEmploymentSpan: argument span
    vSpanOut,         \* validateEmploymentSpan: returned value, "pending" before the call
    vPeriod,          \* validateEADPeriod: argument period
    vPeriodOut,       \* validateEADPeriod: returned value, "pending" before the call
    ics,              \* createUnemploymentICS: returned value, Pending before the call
    editingId,        \* InputForm: editingId ref, NoId for null
    employerName,     \* InputForm: employerName ref
    employmentStart,  \* InputForm: employmentStart ref, NoDate for null
    employmentEnd,    \* InputForm: employmentEnd ref, NoDate for null
    isOngoing,        \* InputForm: isOngoing ref
    nextId,           \* the store: id of the next employment record
    copyStatus,       \* App: copyStatus ref
    exportStatus,     \* App: exportStatus ref
    tempTimer,        \* App: tempTimer, NoTimer for null
    timers,           \* the browser: pending 3-second timeouts, oldest first
    copyCalls,        \* copySummary calls waiting for clipboard.writeText
    nextTimer         \* the browser: id the next setTimeout returns

calcVars == <<optPeriod, stemPeriod, employmentSpans, now, result>>
clampVars == <<cSpan, cPeriod, cRef, cOut>>
mergeVars == <<mIn, mOut>>
validateVars == <<vSpan, vSpanOut, vPeriod, vPeriodOut>>
icsVars == <<ics>>
formVars == <<editingId, employerName, employmentStart, employmentEnd, isOngoing, nextId>>
appVars == <<copyStatus, exportStatus, tempTimer, timers, copyCalls, nextTimer>>
uiVars == <<icsVars, formVars, appVars>>
vars == <<optPeriod, stemPeriod, employmentSpans, now, result,
          cSpan, cPeriod, cRef, cOut, mIn, mOut, pc,
          vSpan, vSpanOut, vPeriod, vPeriodOut,
          ics, editingId, employerName, employmentStart, employmentEnd, isOngoing, nextId,
          copyStatus, exportStatus, tempTimer, timers, copyCalls, nextTimer>>

----------------------------------------------------------------------------
(* Bounds of the model *)

MaxTod == 1      \* times of day 0..MaxTod within one calendar day
MaxDay == 2      \* the dense calendar: days 0..MaxDay
MidDay == 100    \* the long calendar: days 0, 1, MidDay, FarDay
FarDay == 152
MaxMergeLen == 3 \* longest list handed to the merger on its own

TicksPerDay == MaxTod + 1

----------------------------------------------------------------------------
(* Values *)

Null == [type |-> "null"]
Pending == [type |-> "pending"]
NoDate == 0 - 1
NoId == 0
NoTimer == 0

OPT_UNEMPLOYMENT_LIMIT == 90
TOTAL_UNEMPLOYMENT_LIMIT_WITH_STEM == 150

Min2(a, b) == IF a <= b THEN a ELSE b
Max2(a, b) == IF a >= b THEN a ELSE b

(* date-fns *)
startOfDay(date) == date - (date % TicksPerDay)
differenceInCalendarDays(dateLeft, dateRight) ==
    (dateLeft \div TicksPerDay) - (dateRight \div TicksPerDay)
isAfter(date, dateToCompare) == date > dateToCompare
isBefore(date, dateToCompare) == date < dateToCompare
maxDate(a, b) == Max2(a, b)
minDate(a, b) == Min2(a, b)

normalizeDate(date) == startOfDay(date)

getNormalizedReferenceDate(referenceDate) == normalizeDate(referenceDate)

(* calculateDaysBetween without the + 1 that makes the count inclusive. *)
calculateDaysBetween_Exclusive(start, end) ==
    differenceInCalendarDays(normalizeDate(end), normalizeDate(start))

calculateDaysBetween(start, end) ==
    differenceInCalendarDays(normalizeDate(end), normalizeDate(start)) + 1

(* clampSpanToEAD that takes a span touching the period on a boundary day as
   outside of it. *)
clampSpanToEAD_StrictInside(span, eadPeriod, referenceDate) ==
    LET spanStart == normalizeDate(span.startDate)
        spanEnd == IF span.endDate # NoDate
                   THEN normalizeDate(span.endDate)
                   ELSE referenceDate
        eadStart == normalizeDate(eadPeriod.startDate)
        eadEnd == normalizeDate(eadPeriod.endDate)
    IN  IF ~isBefore(spanStart, eadEnd) \/ ~isAfter(spanEnd, eadStart)
        THEN Null
        ELSE [startDate |-> maxDate(spanStart, eadStart),
              endDate |-> minDate(spanEnd, eadEnd)]

(* clampSpanToEAD comparing the span's start as entered, time of day included. *)
clampSpanToEAD_RawStart(span, eadPeriod, referenceDate) ==
    LET spanStart == span.startDate
        spanEnd == IF span.endDate # NoDate
                   THEN normalizeDate(span.endDate)
                   ELSE referenceDate
        eadStart == normalizeDate(eadPeriod.startDate)
        eadEnd == normalizeDate(eadPeriod.endDate)
    IN  IF isAfter(spanStart, eadEnd) \/ isBefore(spanEnd, eadStart)
        THEN Null
        ELSE [startDate |-> maxDate(spanStart, eadStart),
              endDate |-> minDate(spanEnd, eadEnd)]

(* clampSpanToEAD that finds no overlap for a span without an end date. *)
clampSpanToEAD_NoOngoing(span, eadPeriod, referenceDate) ==
    LET spanStart == normalizeDate(span.startDate)
        spanEnd == normalizeDate(span.endDate)
        eadStart == normalizeDate(eadPeriod.startDate)
        eadEnd == normalizeDate(eadPeriod.endDate)
    IN  IF span.endDate = NoDate \/ isAfter(spanStart, eadEnd) \/ isBefore(spanEnd, eadStart)
        THEN Null
        ELSE [startDate |-> maxDate(spanStart, eadStart),
              endDate |-> minDate(spanEnd, eadEnd)]

(* clampSpanToEAD without the overlap test: every span is cut to the period. *)
clampSpanToEAD_NoOverlapTest(span, eadPeriod, referenceDate) ==
    LET spanStart == normalizeDate(span.startDate)
        spanEnd == IF span.endDate # NoDate
                   THEN normalizeDate(span.endDate)
                   ELSE referenceDate
        eadStart == normalizeDate(eadPeriod.startDate)
        eadEnd == normalizeDate(eadPeriod.endDate)
    IN  [startDate |-> maxDate(spanStart, eadStart),
         endDate |-> minDate(spanEnd, eadEnd)]

clampSpanToEAD(span, eadPeriod, referenceDate) ==
    LET spanStart == normalizeDate(span.startDate)
        spanEnd == IF span.endDate # NoDate
                   THEN normalizeDate(span.endDate)
                   ELSE referenceDate
        eadStart == normalizeDate(eadPeriod.startDate)
        eadEnd == normalizeDate(eadPeriod.endDate)
    IN  IF isAfter(spanStart, eadEnd) \/ isBefore(spanEnd, eadStart)
        THEN Null
        ELSE [startDate |-> maxDate(spanStart, eadStart),
              endDate |-> minDate(spanEnd, eadEnd)]

(* The merge loop measuring the gap from the end of the previous input span
   instead of the end of the accumulated span. *)
RECURSIVE MergeLoop_PrevEnd(_, _, _, _)
MergeLoop_PrevEnd(spans, i, current, merged) ==
    IF i > Len(spans)
    THEN Append(merged, current)
    ELSE LET next == spans[i]
             daysBetween == differenceInCalendarDays(next.startDate, spans[i - 1].endDate)
         IN  IF daysBetween <= 1
             THEN MergeLoop_PrevEnd(spans, i + 1,
                                    [startDate |-> current.startDate,
                                     endDate |-> maxDate(current.endDate, next.endDate)],
                                    merged)
             ELSE MergeLoop_PrevEnd(spans, i + 1, next, Append(merged, current))

(* The merge loop merging only spans that share a day (daysBetween <= 0). *)
RECURSIVE MergeLoop_OverlapOnly(_, _, _, _)
MergeLoop_OverlapOnly(spans, i, current, merged) ==
    IF i > Len(spans)
    THEN Append(merged, current)
    ELSE LET next == spans[i]
             daysBetween == differenceInCalendarDays(next.startDate, current.endDate)
         IN  IF daysBetween <= 0
             THEN MergeLoop_OverlapOnly(spans, i + 1,
                                        [startDate |-> current.startDate,
                                         endDate |-> maxDate(current.endDate, next.endDate)],
                                        merged)
             ELSE MergeLoop_OverlapOnly(spans, i + 1, next, Append(merged, current))

(* The merge loop taking the next span's end instead of the later of the two. *)
RECURSIVE MergeLoop_NextEnd(_, _, _, _)
MergeLoop_NextEnd(spans, i, current, merged) ==
    IF i > Len(spans)
    THEN Append(merged, current)
    ELSE LET next == spans[i]
             daysBetween == differenceInCalendarDays(next.startDate, current.endDate)
         IN  IF daysBetween <= 1
             THEN MergeLoop_NextEnd(spans, i + 1,
                                    [startDate |-> current.startDate,
                                     endDate |-> next.endDate],
                                    merged)
             ELSE MergeLoop_NextEnd(spans, i + 1, next, Append(merged, current))

(* The merge loop that forgets to push the accumulated span when a gap follows. *)
RECURSIVE MergeLoop_DropOnGap(_, _, _, _)
MergeLoop_DropOnGap(spans, i, current, merged) ==
    IF i > Len(spans)
    THEN Append(merged, current)
    ELSE LET next == spans[i]
             daysBetween == differenceInCalendarDays(next.startDate, current.endDate)
         IN  IF daysBetween <= 1
             THEN MergeLoop_DropOnGap(spans, i + 1,
                                      [startDate |-> current.startDate,
                                       endDate |-> maxDate(current.endDate, next.endDate)],
                                      merged)
             ELSE MergeLoop_DropOnGap(spans, i + 1, next, merged)

RECURSIVE MergeLoop(_, _, _, _)
MergeLoop(spans, i, current, merged) ==
    IF i > Len(spans)
    THEN Append(merged, current)
    ELSE LET next == spans[i]
             daysBetween == differenceInCalendarDays(next.startDate, current.endDate)
         IN  IF daysBetween <= 1
             THEN MergeLoop(spans, i + 1,
                            [startDate |-> current.startDate,
                             endDate |-> maxDate(current.endDate, next.endDate)],
                            merged)
             ELSE MergeLoop(spans, i + 1, next, Append(merged, current))

(* mergeOverlappingSpans that returns its input without merging. *)
mergeOverlappingSpans_NoMerge(spans) ==
    spans

(* mergeOverlappingSpans whose loop starts one element too late. *)
mergeOverlappingSpans_SkipSecond(spans) ==
    IF Len(spans) = 0 THEN <<>> ELSE MergeLoop(spans, 3, spans[1], <<>>)

mergeOverlappingSpans(spans) ==
    IF Len(spans) = 0 THEN <<>> ELSE MergeLoop(spans, 2, spans[1], <<>>)

(* Array.prototype.sort with the comparator of calculateEmployedDays: a stable
   sort by the calendar day of startDate. *)
RECURSIVE InsertByStart(_, _)
InsertByStart(sorted, x) ==
    IF sorted = <<>>
    THEN <<x>>
    ELSE LET last == sorted[Len(sorted)]
         IN  IF differenceInCalendarDays(last.startDate, x.startDate) > 0
             THEN Append(InsertByStart(SubSeq(sorted, 1, Len(sorted) - 1), x), last)
             ELSE Append(sorted, x)

(* The sort left out: the clamped spans stay in the caller's order. *)
SortByStart_Unsorted(spans) ==
    spans

RECURSIVE SortByStart(_)
SortByStart(spans) ==
    IF spans = <<>>
    THEN <<>>
    ELSE InsertByStart(SortByStart(SubSeq(spans, 1, Len(spans) - 1)), spans[Len(spans)])

ClampAll(employmentSpans_, eadPeriod, referenceDate) ==
    LET mapped == [i \in 1..Len(employmentSpans_) |->
                      clampSpanToEAD(employmentSpans_[i], eadPeriod, referenceDate)]
    IN  SelectSeq(mapped, LAMBDA span : span # Null)

RECURSIVE SumDays(_, _)
SumDays(spans, i) ==
    IF i > Len(spans)
    THEN 0
    ELSE calculateDaysBetween(spans[i].startDate, spans[i].endDate) + SumDays(spans, i + 1)

calculateEmployedDays(employmentSpans_, eadPeriod, referenceDate) ==
    LET clampedSpans == SortByStart(ClampAll(employmentSpans_, eadPeriod, referenceDate))
        mergedSpans == mergeOverlappingSpans(clampedSpans)
    IN  SumDays(mergedSpans, 1)

(* calculateUnemploymentForPeriod without the early return for a period that
   has not begun. *)
calculateUnemploymentForPeriod_NoEarlyReturn(employmentSpans_, eadPeriod, limitDays, referenceDate) ==
    LET eadStart == normalizeDate(eadPeriod.startDate)
        eadEnd == normalizeDate(eadPeriod.endDate)
        effectiveEnd == minDate(eadEnd, referenceDate)
        adjustedPeriod == [type |-> eadPeriod.type,
                           startDate |-> eadStart,
                           endDate |-> effectiveEnd]
        totalDaysInPeriod ==
            calculateDaysBetween(adjustedPeriod.startDate, adjustedPeriod.endDate)
        employedDays ==
            calculateEmployedDays(employmentSpans_, adjustedPeriod, referenceDate)
        usedDays == Max2(0, totalDaysInPeriod - employedDays)
        remainingDays == Max2(0, limitDays - usedDays)
        percentage == IF limitDays > 0
                      THEN [num |-> usedDays * 100, den |-> limitDays]
                      ELSE IF usedDays > 0
                           THEN [num |-> 100, den |-> 1]
                           ELSE [num |-> 0, den |-> 1]
    IN  [phase |-> eadPeriod.type,
         usedDays |-> usedDays,
         remainingDays |-> remainingDays,
         limitDays |-> limitDays,
         percentage |-> percentage]

(* calculateUnemploymentForPeriod with remainingDays left unfloored. *)
calculateUnemploymentForPeriod_NoRemainingFloor(employmentSpans_, eadPeriod, limitDays, referenceDate) ==
    LET eadStart == normalizeDate(eadPeriod.startDate)
        eadEnd == normalizeDate(eadPeriod.endDate)
        effectiveEnd == minDate(eadEnd, referenceDate)
        adjustedPeriod == [type |-> eadPeriod.type,
                           startDate |-> eadStart,
                           endDate |-> effectiveEnd]
        totalDaysInPeriod ==
            calculateDaysBetween(adjustedPeriod.startDate, adjustedPeriod.endDate)
        employedDays ==
            calculateEmployedDays(employmentSpans_, adjustedPeriod, referenceDate)
        usedDays == Max2(0, totalDaysInPeriod - employedDays)
        remainingDays == limitDays - usedDays
        percentage == IF limitDays > 0
                      THEN [num |-> usedDays * 100, den |-> limitDays]
                      ELSE IF usedDays > 0
                           THEN [num |-> 100, den |-> 1]
                           ELSE [num |-> 0, den |-> 1]
    IN  IF isBefore(effectiveEnd, eadStart)
        THEN [phase |-> eadPeriod.type,
              usedDays |-> 0,
              remainingDays |-> limitDays,
              limitDays |-> limitDays,
              percentage |-> [num |-> 0, den |-> 1]]
        ELSE [phase |-> eadPeriod.type,
              usedDays |-> usedDays,
              remainingDays |-> remainingDays,
              limitDays |-> limitDays,
              percentage |-> percentage]

(* calculateUnemploymentForPeriod with the percentage capped at 100. *)
calculateUnemploymentForPeriod_CappedPercentage(employmentSpans_, eadPeriod, limitDays, referenceDate) ==
    LET eadStart == normalizeDate(eadPeriod.startDate)
        eadEnd == normalizeDate(eadPeriod.endDate)
        effectiveEnd == minDate(eadEnd, referenceDate)
        adjustedPeriod == [type |-> eadPeriod.type,
                           startDate |-> eadStart,
                           endDate |-> effectiveEnd]
        totalDaysInPeriod ==
            calculateDaysBetween(adjustedPeriod.startDate, adjustedPeriod.endDate)
        employedDays ==
            calculateEmployedDays(employmentSpans_, adjustedPeriod, referenceDate)
        usedDays == Max2(0, totalDaysInPeriod - employedDays)
        remainingDays == Max2(0, limitDays - usedDays)
        percentage == IF limitDays > 0
                      THEN [num |-> Min2(usedDays, limitDays) * 100, den |-> limitDays]
                      ELSE IF usedDays > 0
                           THEN [num |-> 100, den |-> 1]
                           ELSE [num |-> 0, den |-> 1]
    IN  IF isBefore(effectiveEnd, eadStart)
        THEN [phase |-> eadPeriod.type,
              usedDays |-> 0,
              remainingDays |-> limitDays,
              limitDays |-> limitDays,
              percentage |-> [num |-> 0, den |-> 1]]
        ELSE [phase |-> eadPeriod.type,
              usedDays |-> usedDays,
              remainingDays |-> remainingDays,
              limitDays |-> limitDays,
              percentage |-> percentage]

(* calculateUnemploymentForPeriod counting the whole period, not only the days
   up to the reference date. *)
calculateUnemploymentForPeriod_NoCapAtToday(employmentSpans_, eadPeriod, limitDays, referenceDate) ==
    LET eadStart == normalizeDate(eadPeriod.startDate)
        eadEnd == normalizeDate(eadPeriod.endDate)
        effectiveEnd == eadEnd
        adjustedPeriod == [type |-> eadPeriod.type,
                           startDate |-> eadStart,
                           endDate |-> effectiveEnd]
        totalDaysInPeriod ==
            calculateDaysBetween(adjustedPeriod.startDate, adjustedPeriod.endDate)
        employedDays ==
            calculateEmployedDays(employmentSpans_, adjustedPeriod, referenceDate)
        usedDays == Max2(0, totalDaysInPeriod - employedDays)
        remainingDays == Max2(0, limitDays - usedDays)
        percentage == IF limitDays > 0
                      THEN [num |-> usedDays * 100, den |-> limitDays]
                      ELSE IF usedDays > 0
                           THEN [num |-> 100, den |-> 1]
                           ELSE [num |-> 0, den |-> 1]
    IN  IF isBefore(effectiveEnd, eadStart)
        THEN [phase |-> eadPeriod.type,
              usedDays |-> 0,
              remainingDays |-> limitDays,
              limitDays |-> limitDays,
              percentage |-> [num |-> 0, den |-> 1]]
        ELSE [phase |-> eadPeriod.type,
              usedDays |-> usedDays,
              remainingDays |-> remainingDays,
              limitDays |-> limitDays,
              percentage |-> percentage]

calculateUnemploymentForPeriod(employmentSpans_, eadPeriod, limitDays, referenceDate) ==
    LET eadStart == normalizeDate(eadPeriod.startDate)
        eadEnd == normalizeDate(eadPeriod.endDate)
        effectiveEnd == minDate(eadEnd, referenceDate)
        adjustedPeriod == [type |-> eadPeriod.type,
                           startDate |-> eadStart,
                           endDate |-> effectiveEnd]
        totalDaysInPeriod ==
            calculateDaysBetween(adjustedPeriod.startDate, adjustedPeriod.endDate)
        employedDays ==
            calculateEmployedDays(employmentSpans_, adjustedPeriod, referenceDate)
        usedDays == Max2(0, totalDaysInPeriod - employedDays)
        remainingDays == Max2(0, limitDays - usedDays)
        percentage == IF limitDays > 0
                      THEN [num |-> usedDays * 100, den |-> limitDays]
                      ELSE IF usedDays > 0
                           THEN [num |-> 100, den |-> 1]
                           ELSE [num |-> 0, den |-> 1]
    IN  IF isBefore(effectiveEnd, eadStart)
        THEN [phase |-> eadPeriod.type,
              usedDays |-> 0,
              remainingDays |-> limitDays,
              limitDays |-> limitDays,
              percentage |-> [num |-> 0, den |-> 1]]
        ELSE [phase |-> eadPeriod.type,
              usedDays |-> usedDays,
              remainingDays |-> remainingDays,
              limitDays |-> limitDays,
              percentage |-> percentage]

(* determineStatus warning from 90 percent instead of 80. *)
determineStatus_WarnAt90(totalUsedDays, totalAllowedDays) ==
    IF totalUsedDays > totalAllowedDays
    THEN [status |-> "violation",
          message |-> "You have exceeded the allowed unemployment days. You may be out of status. Please consult your international student office immediately."]
    ELSE IF totalUsedDays * 100 >= 90 * totalAllowedDays
         THEN [status |-> "warning",
               message |-> "You are approaching the unemployment limit. Please find employment soon to maintain status."]
         ELSE [status |-> "normal",
               message |-> "Your unemployment days are within the allowed limit."]

(* determineStatus with the violation test written >= instead of >. *)
determineStatus_AtLimit(totalUsedDays, totalAllowedDays) ==
    IF totalUsedDays >= totalAllowedDays
    THEN [status |-> "violation",
          message |-> "You have exceeded the allowed unemployment days. You may be out of status. Please consult your international student office immediately."]
    ELSE IF totalUsedDays * 100 >= 80 * totalAllowedDays
         THEN [status |-> "warning",
               message |-> "You are approaching the unemployment limit. Please find employment soon to maintain status."]
         ELSE [status |-> "normal",
               message |-> "Your unemployment days are within the allowed limit."]

determineStatus(totalUsedDays, totalAllowedDays) ==
    IF totalUsedDays > totalAllowedDays
    THEN [status |-> "violation",
          message |-> "You have exceeded the allowed unemployment days. You may be out of status. Please consult your international student office immediately."]
    ELSE IF totalUsedDays * 100 >= 80 * totalAllowedDays
         THEN [status |-> "warning",
               message |-> "You are approaching the unemployment limit. Please find employment soon to maintain status."]
         ELSE [status |-> "normal",
               message |-> "Your unemployment days are within the allowed limit."]

(* availableStemDays taken from the OPT limit instead of the combined one. *)
availableStemDays_FromOptLimit(phase1) ==
    Max2(0, OPT_UNEMPLOYMENT_LIMIT - phase1.usedDays)

(* availableStemDays without the floor at zero. *)
availableStemDays_NoFloor(phase1) ==
    TOTAL_UNEMPLOYMENT_LIMIT_WITH_STEM - phase1.usedDays

availableStemDays(phase1) ==
    Max2(0, TOTAL_UNEMPLOYMENT_LIMIT_WITH_STEM - phase1.usedDays)

(* totalUsedDays left at phase1.usedDays when a STEM period is there. *)
totalUsedDaysOf_Phase1Only(phase1, phase2) ==
    phase1.usedDays

totalUsedDaysOf(phase1, phase2) ==
    IF phase2 # Null THEN phase1.usedDays + phase2.usedDays ELSE phase1.usedDays

totalAllowedDaysOf(stemPeriod_) ==
    IF stemPeriod_ # Null
    THEN TOTAL_UNEMPLOYMENT_LIMIT_WITH_STEM
    ELSE OPT_UNEMPLOYMENT_LIMIT

calculateUnemploymentBody(optPeriod_, stemPeriod_, employmentSpans_, referenceDate_) ==
    LET referenceDate == getNormalizedReferenceDate(referenceDate_)
        phase1 == calculateUnemploymentForPeriod(
                      employmentSpans_, optPeriod_, OPT_UNEMPLOYMENT_LIMIT, referenceDate)
        phase2 == IF stemPeriod_ # Null
                  THEN calculateUnemploymentForPeriod(
                           employmentSpans_, stemPeriod_,
                           availableStemDays(phase1), referenceDate)
                  ELSE Null
        totalUsedDays == totalUsedDaysOf(phase1, phase2)
        totalAllowedDays == totalAllowedDaysOf(stemPeriod_)
        verdict == determineStatus(totalUsedDays, totalAllowedDays)
    IN  [phase1 |-> phase1,
         phase2 |-> phase2,
         totalUsedDays |-> totalUsedDays,
         totalAllowedDays |-> totalAllowedDays,
         status |-> verdict.status,
         statusMessage |-> verdict.message]

(* calculateUnemployment that also gives up when the STEM period is missing. *)
calculateUnemployment_NeedsBoth(optPeriod_, stemPeriod_, employmentSpans_, referenceDate_) ==
    IF optPeriod_ = Null \/ stemPeriod_ = Null
    THEN Null
    ELSE calculateUnemploymentBody(optPeriod_, stemPeriod_, employmentSpans_, referenceDate_)

calculateUnemployment(optPeriod_, stemPeriod_, employmentSpans_, referenceDate_) ==
    IF optPeriod_ = Null
    THEN Null
    ELSE calculateUnemploymentBody(optPeriod_, stemPeriod_, employmentSpans_, referenceDate_)

(* String.prototype.trim on a name kept as a sequence of characters. *)
RECURSIVE trim(_)
trim(name) ==
    IF name = <<>>
    THEN <<>>
    ELSE IF name[1] = " "
         THEN trim(SubSeq(name, 2, Len(name)))
         ELSE IF name[Len(name)] = " "
              THEN trim(SubSeq(name, 1, Len(name) - 1))
              ELSE name

(* validateEmploymentSpan testing the name as typed, without trim. *)
validateEmploymentSpan_NoTrim(span) ==
    IF span.employerName = <<>>
    THEN "Employer name is required"
    ELSE IF span.startDate = NoDate
         THEN "Start date is required"
         ELSE IF span.endDate # NoDate /\ isBefore(span.endDate, span.startDate)
              THEN "End date must be after start date"
              ELSE "null"

validateEmploymentSpan(span) ==
    IF span.employerName = <<>> \/ trim(span.employerName) = <<>>
    THEN "Employer name is required"
    ELSE IF span.startDate = NoDate
         THEN "Start date is required"
         ELSE IF span.endDate # NoDate /\ isBefore(span.endDate, span.startDate)
              THEN "End date must be after start date"
              ELSE "null"

(* validateEADPeriod asking for an end date after the start date. *)
validateEADPeriod_EndAfter(period) ==
    IF period.startDate = NoDate
    THEN "Start date is required"
    ELSE IF period.endDate = NoDate
         THEN "End date is required"
         ELSE IF ~isAfter(period.endDate, period.startDate)
              THEN "End date must be after start date"
              ELSE "null"

validateEADPeriod(period) ==
    IF period.startDate = NoDate
    THEN "Start date is required"
    ELSE IF period.endDate = NoDate
         THEN "End date is required"
         ELSE IF isBefore(period.endDate, period.startDate)
              THEN "End date must be after start date"
              ELSE "null"

----------------------------------------------------------------------------
(* The calendar export (utils/ics).  The returned string is kept as its lines,
   each a property name and a value; a formatted date is the pair of its
   calendar-date digits and its time-of-day digits. *)

addDays(date, amount) == date + amount * TicksPerDay

formatICSDate(value) ==
    [yyyyMMdd |-> value \div TicksPerDay, HHmmss |-> value % TicksPerDay]

(* uid is what generateUid returns, stamp what new Date() returns. *)
buildEvent(summary, date, description, uid, stamp) ==
    << [name |-> "BEGIN", value |-> "VEVENT"],
       [name |-> "UID", value |-> uid],
       [name |-> "DTSTAMP", value |-> formatICSDate(stamp)],
       [name |-> "DTSTART", value |-> formatICSDate(date)],
       [name |-> "DTEND", value |-> formatICSDate(addDays(date, 1))],
       [name |-> "SUMMARY", value |-> summary],
       [name |-> "DESCRIPTION", value |-> description],
       [name |-> "END", value |-> "VEVENT"] >>

ICSText(events) ==
    [type |-> "string",
     lines |-> << [name |-> "BEGIN", value |-> "VCALENDAR"],
                  [name |-> "VERSION", value |-> "2.0"],
                  [name |-> "PRODID", value |-> "-//OPT Tracker//EN"] >>
               \o events
               \o << [name |-> "END", value |-> "VCALENDAR"] >>]

(* createUnemploymentICS with both reminders one day late: the limits themselves
   added to the start date. *)
createUnemploymentICS_AtLimit(optPeriod_, stemPeriod_, uids, stamp) ==
    IF optPeriod_ = Null
    THEN Null
    ELSE LET optDeadline == addDays(optPeriod_.startDate, OPT_UNEMPLOYMENT_LIMIT)
             totalDeadline ==
                 addDays(optPeriod_.startDate, TOTAL_UNEMPLOYMENT_LIMIT_WITH_STEM)
             events ==
                 buildEvent("OPT 90-day unemployment limit", optDeadline,
                            "Reminder: You must not exceed 90 days of unemployment during OPT.",
                            uids[1], stamp)
                 \o buildEvent("STEM 150-day unemployment limit", totalDeadline,
                               "Reminder: OPT + STEM combined unemployment must stay under 150 days.",
                               uids[2], stamp)
                 \o (IF stemPeriod_ # Null
                     THEN buildEvent("STEM period ends", stemPeriod_.endDate,
                                     "End of STEM EAD validity.", uids[3], stamp)
                     ELSE <<>>)
         IN  ICSText(events)

(* uids are the values generateUid returns for the events, stamp is new Date(). *)
createUnemploymentICS(optPeriod_, stemPeriod_, uids, stamp) ==
    IF optPeriod_ = Null
    THEN Null
    ELSE LET optDeadline == addDays(optPeriod_.startDate, OPT_UNEMPLOYMENT_LIMIT - 1)
             totalDeadline ==
                 addDays(optPeriod_.startDate, TOTAL_UNEMPLOYMENT_LIMIT_WITH_STEM - 1)
             events ==
                 buildEvent("OPT 90-day unemployment limit", optDeadline,
                            "Reminder: You must not exceed 90 days of unemployment during OPT.",
                            uids[1], stamp)
                 \o buildEvent("STEM 150-day unemployment limit", totalDeadline,
                               "Reminder: OPT + STEM combined unemployment must stay under 150 days.",
                               uids[2], stamp)
                 \o (IF stemPeriod_ # Null
                     THEN buildEvent("STEM period ends", stemPeriod_.endDate,
                                     "End of STEM EAD validity.", uids[3], stamp)
                     ELSE <<>>)
         IN  ICSText(events)

----------------------------------------------------------------------------
(* Inputs *)

DenseDays == 0..MaxDay
LongDays == {0, 1, MidDay, FarDay}
Tods == 0..MaxTod

DatesOn(days, tods) == {d * TicksPerDay + t : d \in days, t \in tods}

PeriodsOn(type, dates) ==
    {p \in [type : {type}, startDate : dates, endDate : dates] :
        validateEADPeriod(p) = "null"}

SpansOn(dates) ==
    {s \in [employerName : {<<"A">>}, startDate : dates, endDate : dates \cup {NoDate}] :
        validateEmploymentSpan(s) = "null"}

(* Spans entered at one time of day: start and end share it. *)
SpansAt(days, tods) == UNION {SpansOn(DatesOn(days, {t})) : t \in tods}

SeqsUpTo(S, n) == UNION {[1..k -> S] : k \in 0..n}

(* The last calendar day any input mentions. *)
LastDay(opt, stem, spans) ==
    LET dates == (IF opt = Null THEN {} ELSE {opt.startDate, opt.endDate})
                 \cup (IF stem = Null THEN {} ELSE {stem.startDate, stem.endDate})
                 \cup {spans[i].startDate : i \in 1..Len(spans)}
                 \cup {spans[i].endDate : i \in 1..Len(spans)}
    IN  IF dates \ {NoDate} = {}
        THEN 0
        ELSE (CHOOSE d \in dates : \A e \in dates : e <= d) \div TicksPerDay

----------------------------------------------------------------------------
(* The calculation, as the store runs it: once when the data is there, and again
   whenever the clock moves on. *)

CalcIdle ==
    /\ optPeriod = Null
    /\ stemPeriod = Null
    /\ employmentSpans = <<>>
    /\ now = 0
    /\ result = Pending

ClampIdle ==
    /\ cSpan = Null
    /\ cPeriod = Null
    /\ cRef = 0
    /\ cOut = Null

MergeIdle ==
    /\ mIn = <<>>
    /\ mOut = <<>>

ValidateIdle ==
    /\ vSpan = Null
    /\ vSpanOut = "pending"
    /\ vPeriod = Null
    /\ vPeriodOut = "pending"

IcsIdle ==
    ics = Pending

FormIdle ==
    /\ editingId = NoId
    /\ employerName = <<>>
    /\ employmentStart = NoDate
    /\ employmentEnd = NoDate
    /\ isOngoing = FALSE
    /\ nextId = 1

AppIdle ==
    /\ copyStatus = "idle"
    /\ exportStatus = "idle"
    /\ tempTimer = NoTimer
    /\ timers = <<>>
    /\ copyCalls = 0
    /\ nextTimer = 1

UiIdle == IcsIdle /\ FormIdle /\ AppIdle

InitLong ==
    /\ optPeriod \in PeriodsOn("OPT", DatesOn(LongDays, {0})) \cup {Null}
    /\ stemPeriod \in PeriodsOn("STEM", DatesOn(LongDays, {0})) \cup {Null}
    /\ employmentSpans \in SeqsUpTo(SpansOn(DatesOn(LongDays, {0})), 1)
    /\ now \in DatesOn({0}, Tods)
    /\ result = Pending
    /\ ClampIdle
    /\ MergeIdle
    /\ ValidateIdle
    /\ pc = "ready"
    /\ UiIdle

InitDense ==
    /\ optPeriod \in PeriodsOn("OPT", DatesOn(DenseDays, {0})) \cup {Null}
    /\ stemPeriod \in PeriodsOn("STEM", DatesOn(DenseDays, {0})) \cup {Null}
    /\ employmentSpans \in SeqsUpTo(SpansAt(DenseDays, Tods), 2)
    /\ now = 0
    /\ result = Pending
    /\ ClampIdle
    /\ MergeIdle
    /\ ValidateIdle
    /\ pc = "ready"
    /\ UiIdle

(* The caller's employment list after a call: map and filter build a new array,
   and the sort rearranges that one. *)
SpansAfterCall_SortedInPlace(spans) ==
    SortByStart(spans)

SpansAfterCall(spans) ==
    spans

(* The caller's period after a call: adjustedPeriod is a copy, and the cut at the
   reference date is written to the copy. *)
PeriodAfterCall(period, referenceDate) ==
    period

Calculate ==
    /\ result = Pending
    /\ result' = calculateUnemployment(optPeriod, stemPeriod, employmentSpans, now)
    /\ employmentSpans' = SpansAfterCall(employmentSpans)
    /\ optPeriod' = PeriodAfterCall(optPeriod, getNormalizedReferenceDate(now))
    /\ stemPeriod' = PeriodAfterCall(stemPeriod, getNormalizedReferenceDate(now))
    /\ UNCHANGED now
    /\ UNCHANGED <<clampVars, mergeVars, pc, validateVars>>
    /\ UNCHANGED uiVars

Tick ==
    /\ result # Pending
    /\ now \div TicksPerDay <= LastDay(optPeriod, stemPeriod, employmentSpans)
    /\ now' = now + TicksPerDay
    /\ result' = calculateUnemployment(optPeriod, stemPeriod, employmentSpans, now')
    /\ employmentSpans' = SpansAfterCall(employmentSpans)
    /\ optPeriod' = PeriodAfterCall(optPeriod, getNormalizedReferenceDate(now'))
    /\ stemPeriod' = PeriodAfterCall(stemPeriod, getNormalizedReferenceDate(now'))
    /\ UNCHANGED <<clampVars, mergeVars, pc, validateVars>>
    /\ UNCHANGED uiVars

NextCalc == Calculate \/ Tick

Spec == InitLong /\ [][NextCalc]_vars

SpecDense == InitDense /\ [][NextCalc]_vars

----------------------------------------------------------------------------
(* The calculation run again after one more validated span has been entered, at
   an unchanged reference date. *)

MaxSpans == 2

InitAdd ==
    /\ optPeriod \in PeriodsOn("OPT", DatesOn(LongDays, {0})) \cup {Null}
    /\ stemPeriod \in PeriodsOn("STEM", DatesOn(LongDays, {0})) \cup {Null}
    /\ employmentSpans \in SeqsUpTo(SpansOn(DatesOn(LongDays, {0})), 1)
    /\ now \in DatesOn(LongDays, {0})
    /\ result = Pending
    /\ ClampIdle
    /\ MergeIdle
    /\ ValidateIdle
    /\ pc = "ready"
    /\ UiIdle

AddSpan ==
    /\ result # Pending
    /\ Len(employmentSpans) < MaxSpans
    /\ \E span \in SpansOn(DatesOn(LongDays, {0})) :
           /\ employmentSpans' = SpansAfterCall(Append(employmentSpans, span))
           /\ result' = calculateUnemployment(optPeriod, stemPeriod,
                                              Append(employmentSpans, span), now)
    /\ optPeriod' = PeriodAfterCall(optPeriod, getNormalizedReferenceDate(now))
    /\ stemPeriod' = PeriodAfterCall(stemPeriod, getNormalizedReferenceDate(now))
    /\ UNCHANGED now
    /\ UNCHANGED <<clampVars, mergeVars, pc, validateVars>>
    /\ UNCHANGED uiVars

NextAdd == Calculate \/ AddSpan

SpecAdd == InitAdd /\ [][NextAdd]_vars

----------------------------------------------------------------------------
(* clampSpanToEAD called on its own.  referenceDate arrives normalized, as
   calculateUnemployment passes it. *)

AnySpansOn(dates) ==
    [employerName : {<<"A">>}, startDate : dates, endDate : dates \cup {NoDate}]

InitClamp ==
    /\ cSpan \in AnySpansOn(DatesOn(DenseDays, Tods))
    /\ cPeriod \in PeriodsOn("OPT", DatesOn(DenseDays, Tods))
    /\ cRef \in DatesOn(0..(MaxDay + 1), {0})
    /\ cOut = Null
    /\ pc = "ready"
    /\ CalcIdle
    /\ MergeIdle
    /\ ValidateIdle
    /\ UiIdle

Clamp ==
    /\ pc = "ready"
    /\ cOut' = clampSpanToEAD(cSpan, cPeriod, cRef)
    /\ pc' = "done"
    /\ UNCHANGED <<cSpan, cPeriod, cRef>>
    /\ UNCHANGED <<calcVars, mergeVars, validateVars>>
    /\ UNCHANGED uiVars

NextClamp == Clamp

SpecClamp == InitClamp /\ [][NextClamp]_vars

----------------------------------------------------------------------------
(* mergeOverlappingSpans called on its own, on clamped spans sorted by start. *)

MergedSpansOn(days) ==
    {m \in [startDate : DatesOn(days, {0}), endDate : DatesOn(days, {0})] :
        m.startDate <= m.endDate}

SortedByStart(spans) ==
    \A i \in 1..(Len(spans) - 1) : spans[i].startDate <= spans[i + 1].startDate

InitMerge ==
    /\ mIn \in {q \in SeqsUpTo(MergedSpansOn(DenseDays), MaxMergeLen) : SortedByStart(q)}
    /\ mOut = <<>>
    /\ pc = "ready"
    /\ CalcIdle
    /\ ClampIdle
    /\ ValidateIdle
    /\ UiIdle

Merge ==
    /\ pc = "ready"
    /\ mOut' = mergeOverlappingSpans(mIn)
    /\ pc' = "done"
    /\ UNCHANGED mIn
    /\ UNCHANGED <<calcVars, clampVars, validateVars>>
    /\ UNCHANGED uiVars

NextMerge == Merge

SpecMerge == InitMerge /\ [][NextMerge]_vars

----------------------------------------------------------------------------
(* The two validators called on their own, as the form calls them before it
   stores anything: on names with and without blanks, and on dates that may be
   missing or out of order. *)

Names == {<<>>, <<" ">>, <<" ", " ">>, <<"A">>, <<" ", "A", " ">>}

MaybeDates == DatesOn(DenseDays, Tods) \cup {NoDate}

InitValidate ==
    /\ vSpan \in [employerName : Names, startDate : MaybeDates, endDate : MaybeDates]
    /\ vSpanOut = "pending"
    /\ vPeriod \in [type : {"OPT", "STEM"}, startDate : MaybeDates, endDate : MaybeDates]
    /\ vPeriodOut = "pending"
    /\ pc = "ready"
    /\ CalcIdle
    /\ ClampIdle
    /\ MergeIdle
    /\ UiIdle

ValidateSpan ==
    /\ vSpanOut = "pending"
    /\ vSpanOut' = validateEmploymentSpan(vSpan)
    /\ UNCHANGED <<vSpan, vPeriod, vPeriodOut, pc>>
    /\ UNCHANGED <<calcVars, clampVars, mergeVars>>
    /\ UNCHANGED uiVars

ValidatePeriod ==
    /\ vPeriodOut = "pending"
    /\ vPeriodOut' = validateEADPeriod(vPeriod)
    /\ UNCHANGED <<vSpan, vSpanOut, vPeriod, pc>>
    /\ UNCHANGED <<calcVars, clampVars, mergeVars>>
    /\ UNCHANGED uiVars

NextValidate == ValidateSpan \/ ValidatePeriod

SpecValidate == InitValidate /\ [][NextValidate]_vars

----------------------------------------------------------------------------
(* createUnemploymentICS called on its own, on periods entered at any time of
   day. *)

Uids == {"uid-a", "uid-b"}

InitICS ==
    /\ optPeriod \in PeriodsOn("OPT", DatesOn(DenseDays, Tods)) \cup {Null}
    /\ stemPeriod \in PeriodsOn("STEM", DatesOn(DenseDays, Tods)) \cup {Null}
    /\ employmentSpans = <<>>
    /\ now \in DatesOn({0}, Tods)
    /\ result = Pending
    /\ ics = Pending
    /\ pc = "ready"
    /\ ClampIdle
    /\ MergeIdle
    /\ ValidateIdle
    /\ FormIdle
    /\ AppIdle

CreateICS ==
    /\ ics = Pending
    /\ \E uids \in [1..3 -> Uids] :
           ics' = createUnemploymentICS(optPeriod, stemPeriod, uids, now)
    /\ UNCHANGED <<calcVars, clampVars, mergeVars, pc, validateVars, formVars, appVars>>

NextICS == CreateICS

SpecICS == InitICS /\ [][NextICS]_vars

----------------------------------------------------------------------------
(* The employment form (components/InputForm) on top of the store.  A
   confirm() dialog that is declined leaves everything as it is, so the two
   handlers that ask are modelled from the confirmation on. *)

MaxRecords == 2

FormNames == {<<>>, <<"A">>}
FormDates == {NoDate} \cup DatesOn({0}, {0})

(* The store's writers on employmentSpans. *)
addEmploymentSpan(spans, id, name, startDate, endDate) ==
    Append(spans, [id |-> id, employerName |-> name,
                   startDate |-> startDate, endDate |-> endDate])

updateEmploymentSpan(spans, id, name, startDate, endDate) ==
    [i \in 1..Len(spans) |->
        IF spans[i].id = id
        THEN [id |-> id, employerName |-> name,
              startDate |-> startDate, endDate |-> endDate]
        ELSE spans[i]]

deleteEmploymentSpan(spans, id) ==
    SelectSeq(spans, LAMBDA span : span.id # id)

hasData ==
    optPeriod # Null \/ stemPeriod # Null \/ Len(employmentSpans) > 0

isEditing == editingId # NoId

formValid == trim(employerName) # <<>> /\ employmentStart # NoDate

InitForm ==
    /\ optPeriod \in PeriodsOn("OPT", DatesOn({0}, {0})) \cup {Null}
    /\ stemPeriod = Null
    /\ employmentSpans = <<>>
    /\ now = 0
    /\ result = Pending
    /\ pc = "ready"
    /\ ClampIdle
    /\ MergeIdle
    /\ ValidateIdle
    /\ IcsIdle
    /\ FormIdle
    /\ AppIdle

FormRest == <<now, result, clampVars, mergeVars, pc, validateVars, icsVars, appVars>>

InputEmployerName ==
    /\ \E name \in FormNames : employerName' = name
    /\ UNCHANGED <<editingId, employmentStart, employmentEnd, isOngoing, nextId>>
    /\ UNCHANGED <<optPeriod, stemPeriod, employmentSpans, FormRest>>

InputEmploymentStart ==
    /\ \E date \in FormDates : employmentStart' = date
    /\ UNCHANGED <<editingId, employerName, employmentEnd, isOngoing, nextId>>
    /\ UNCHANGED <<optPeriod, stemPeriod, employmentSpans, FormRest>>

InputEmploymentEnd ==
    /\ ~isOngoing
    /\ \E date \in FormDates : employmentEnd' = date
    /\ UNCHANGED <<editingId, employerName, employmentStart, isOngoing, nextId>>
    /\ UNCHANGED <<optPeriod, stemPeriod, employmentSpans, FormRest>>

InputIsOngoing ==
    /\ isOngoing' = ~isOngoing
    /\ UNCHANGED <<editingId, employerName, employmentStart, employmentEnd, nextId>>
    /\ UNCHANGED <<optPeriod, stemPeriod, employmentSpans, FormRest>>

ResetEmploymentFormFields ==
    /\ employerName' = <<>>
    /\ employmentStart' = NoDate
    /\ employmentEnd' = NoDate
    /\ isOngoing' = FALSE
    /\ editingId' = NoId

addEmployment ==
    /\ formValid
    /\ LET endDate == IF isOngoing THEN NoDate ELSE employmentEnd
       IN  IF isEditing
           THEN /\ employmentSpans' =
                      updateEmploymentSpan(employmentSpans, editingId, employerName,
                                           employmentStart, endDate)
                /\ UNCHANGED nextId
           ELSE /\ nextId <= MaxRecords
                /\ employmentSpans' =
                      addEmploymentSpan(employmentSpans, nextId, employerName,
                                        employmentStart, endDate)
                /\ nextId' = nextId + 1
    /\ ResetEmploymentFormFields
    /\ UNCHANGED <<optPeriod, stemPeriod, FormRest>>

editEmployment ==
    /\ \E i \in 1..Len(employmentSpans) :
           LET span == employmentSpans[i]
           IN  /\ editingId' = span.id
               /\ employerName' = span.employerName
               /\ employmentStart' = span.startDate
               /\ employmentEnd' = span.endDate
               /\ isOngoing' = (span.endDate = NoDate)
    /\ UNCHANGED nextId
    /\ UNCHANGED <<optPeriod, stemPeriod, employmentSpans, FormRest>>

deleteEmployment ==
    /\ \E i \in 1..Len(employmentSpans) :
           employmentSpans' = deleteEmploymentSpan(employmentSpans, employmentSpans[i].id)
    /\ UNCHANGED formVars
    /\ UNCHANGED <<optPeriod, stemPeriod, FormRest>>

resetEmploymentForm ==
    /\ isEditing
    /\ ResetEmploymentFormFields
    /\ UNCHANGED nextId
    /\ UNCHANGED <<optPeriod, stemPeriod, employmentSpans, FormRest>>

clearAllData ==
    /\ hasData
    /\ optPeriod' = Null
    /\ stemPeriod' = Null
    /\ employmentSpans' = <<>>
    /\ ResetEmploymentFormFields
    /\ UNCHANGED nextId
    /\ UNCHANGED FormRest

NextForm ==
    \/ InputEmployerName
    \/ InputEmploymentStart
    \/ InputEmploymentEnd
    \/ InputIsOngoing
    \/ addEmployment
    \/ editEmployment
    \/ deleteEmployment
    \/ resetEmploymentForm
    \/ clearAllData

SpecForm == InitForm /\ [][NextForm]_vars

----------------------------------------------------------------------------
(* The App component's two buttons, Copy Summary and Add to Calendar.  Both
   handlers keep their 3-second reset in the one variable tempTimer.  The
   timeouts all wait 3 seconds, so they fire in the order they were set.
   copySummary waits for clipboard.writeText, so other handlers run between its
   two halves; a missing clipboard API throws at once, which is the first half
   followed directly by a rejection.  The toasts and their own 4-second timers
   touch neither the statuses nor tempTimer and are left out. *)

MaxTimers == 3

InitApp ==
    /\ optPeriod \in PeriodsOn("OPT", DatesOn({0}, {0})) \cup {Null}
    /\ stemPeriod \in PeriodsOn("STEM", DatesOn({1}, {0})) \cup {Null}
    /\ employmentSpans = <<>>
    /\ now = 0
    /\ result = Pending
    /\ pc = "ready"
    /\ ClampIdle
    /\ MergeIdle
    /\ ValidateIdle
    /\ IcsIdle
    /\ FormIdle
    /\ AppIdle

AppRest == <<calcVars, clampVars, mergeVars, pc, validateVars, formVars>>

(* clearTimeout(tempTimer): the timeout with that id, if still pending, is gone. *)
clearTimeout(pending, id) ==
    SelectSeq(pending, LAMBDA timer : timer.id # id)

(* window.setTimeout(() => { <target>Status.value = 'idle' }, 3000) *)
setTimeout(pending, id, target) ==
    Append(pending, [id |-> id, target |-> target])

(* copySummary up to the await. *)
copySummary ==
    /\ optPeriod # Null
    /\ nextTimer + copyCalls <= MaxTimers
    /\ timers' = (IF tempTimer # NoTimer THEN clearTimeout(timers, tempTimer) ELSE timers)
    /\ tempTimer' = NoTimer
    /\ copyCalls' = copyCalls + 1
    /\ UNCHANGED <<copyStatus, exportStatus, nextTimer, ics>>
    /\ UNCHANGED AppRest

(* copySummary from the await on: writeText resolved or rejected, then finally. *)
copySummarySettled ==
    /\ copyCalls > 0
    /\ copyCalls' = copyCalls - 1
    /\ \E outcome \in {"copied", "error"} : copyStatus' = outcome
    /\ timers' = setTimeout(timers, nextTimer, "copy")
    /\ tempTimer' = nextTimer
    /\ nextTimer' = nextTimer + 1
    /\ UNCHANGED <<exportStatus, ics>>
    /\ UNCHANGED AppRest

exportDeadlines ==
    /\ optPeriod # Null
    /\ nextTimer + copyCalls <= MaxTimers
    /\ \E uids \in [1..3 -> Uids] :
           LET created == createUnemploymentICS(optPeriod, stemPeriod, uids, now)
           IN  \/ /\ created # Null
                  /\ ics' = created
                  /\ exportStatus' = "success"
               \/ /\ exportStatus' = "error"
                  /\ UNCHANGED ics
    /\ timers' = setTimeout(IF tempTimer # NoTimer
                            THEN clearTimeout(timers, tempTimer)
                            ELSE timers,
                            nextTimer, "export")
    /\ tempTimer' = nextTimer
    /\ nextTimer' = nextTimer + 1
    /\ UNCHANGED <<copyStatus, copyCalls>>
    /\ UNCHANGED AppRest

(* The oldest pending timeout fires. *)
TimerFires ==
    /\ timers # <<>>
    /\ timers' = Tail(timers)
    /\ IF Head(timers).target = "copy"
       THEN copyStatus' = "idle" /\ UNCHANGED exportStatus
       ELSE exportStatus' = "idle" /\ UNCHANGED copyStatus
    /\ UNCHANGED <<tempTimer, copyCalls, nextTimer, ics>>
    /\ UNCHANGED AppRest

NextApp ==
    \/ copySummary
    \/ copySummarySettled
    \/ exportDeadlines
    \/ TimerFires

SpecApp == InitApp /\ [][NextApp]_vars

----------------------------------------------------------------------------
(* Properties of the calculation *)

Computed == result # Pending /\ result # Null

DayOf(date) == date \div TicksPerDay

Statuses == {"normal", "warning", "violation"}

(* C1: in every result, status is "violation" exactly when totalUsedDays >
   totalAllowedDays, "warning" exactly when it is no violation and
   totalUsedDays / totalAllowedDays >= 0.80, and "normal" otherwise; used equal
   to allowed is a warning. *)
C1_StatusThresholds ==
    Computed =>
        LET used == result.totalUsedDays
            allowed == result.totalAllowedDays
            over == used > allowed
            near == ~over /\ 5 * used >= 4 * allowed
        IN  /\ result.status \in Statuses
            /\ (result.status = "violation") <=> over
            /\ (result.status = "warning") <=> near
            /\ (result.status = "normal") <=> (~over /\ ~near)
            /\ (used = allowed) => (result.status = "warning")

C1_Witness ==
    /\ Computed
    /\ result.totalUsedDays = result.totalAllowedDays
    /\ result.status = "warning"

(* C3: the result is null exactly when the OPT period is absent, whatever the
   STEM period and the employment list are; with an OPT period the result is a
   complete CalculationResult. *)
SummaryComplete(summary, type) ==
    /\ DOMAIN summary = {"phase", "usedDays", "remainingDays", "limitDays", "percentage"}
    /\ summary.phase = type
    /\ summary.usedDays \in Nat
    /\ summary.remainingDays \in Nat
    /\ summary.limitDays \in Nat
    /\ summary.percentage.num \in Nat
    /\ summary.percentage.den \in Nat \ {0}

C3_NullIffNoOpt ==
    (result # Pending) =>
        /\ (result = Null) <=> (optPeriod = Null)
        /\ (optPeriod # Null) =>
              /\ DOMAIN result = {"phase1", "phase2", "totalUsedDays", "totalAllowedDays",
                                  "status", "statusMessage"}
              /\ SummaryComplete(result.phase1, "OPT")
              /\ (stemPeriod = Null) => (result.phase2 = Null)
              /\ (stemPeriod # Null) => SummaryComplete(result.phase2, "STEM")
              /\ result.totalUsedDays \in Nat
              /\ result.totalAllowedDays \in Nat \ {0}
              /\ result.status \in Statuses
              /\ result.statusMessage # ""

C3_Witness ==
    /\ result = Null
    /\ optPeriod = Null
    /\ stemPeriod # Null
    /\ Len(employmentSpans) > 0

(* C4: with a STEM period, phase2.limitDays = max(0, 150 - phase1.usedDays),
   never negative, also when phase 1 alone used more than 150 days. *)
C4_StemLimit ==
    (Computed /\ stemPeriod # Null) =>
        /\ result.phase2.limitDays >= 0
        /\ (result.phase1.usedDays <= 150) =>
               (result.phase2.limitDays = 150 - result.phase1.usedDays)
        /\ (result.phase1.usedDays > 150) => (result.phase2.limitDays = 0)

C4_Witness ==
    /\ Computed
    /\ stemPeriod # Null
    /\ result.phase1.usedDays > 150
    /\ result.phase2.limitDays = 0

(* C5: totalUsedDays is phase1.usedDays + phase2.usedDays with a STEM period and
   phase1.usedDays without; totalAllowedDays is 150 with a STEM period and 90
   without; phase1.limitDays is always 90. *)
C5_Totals ==
    Computed =>
        /\ result.phase1.limitDays = 90
        /\ (stemPeriod # Null) =>
              /\ result.totalUsedDays = result.phase1.usedDays + result.phase2.usedDays
              /\ result.totalAllowedDays = 150
        /\ (stemPeriod = Null) =>
              /\ result.totalUsedDays = result.phase1.usedDays
              /\ result.totalAllowedDays = 90

C5_Witness ==
    /\ Computed
    /\ stemPeriod # Null
    /\ result.phase1.usedDays > 0
    /\ result.phase2.usedDays > 0
    /\ result.totalUsedDays = result.phase1.usedDays + result.phase2.usedDays

----------------------------------------------------------------------------
(* Day accounting of one period, stated on calendar days. *)

ReferenceDay == DayOf(now)

(* The last day of the period's effective window. *)
EffectiveEndDay(period) == Min2(DayOf(period.endDate), ReferenceDay)

Started(period) == DayOf(period.startDate) <= EffectiveEndDay(period)

WindowDays(period) == DayOf(period.startDate)..EffectiveEndDay(period)

(* The days an employment span covers; an open-ended one runs to the reference day. *)
SpanDays(span) ==
    DayOf(span.startDate)..(IF span.endDate = NoDate THEN ReferenceDay ELSE DayOf(span.endDate))

EmployedOn(day) == \E i \in 1..Len(employmentSpans) : day \in SpanDays(employmentSpans[i])

UncoveredDays(period) == {day \in WindowDays(period) : ~EmployedOn(day)}

(* C2: for a period that has started, usedDays is the number of calendar days of
   the effective window [periodStart, min(periodEnd, referenceDate)] that no
   employment span covers, whatever the order and overlap of the spans. *)
C2_UsedDaysAreUncoveredDays ==
    Computed =>
        /\ Started(optPeriod) =>
               (result.phase1.usedDays = Cardinality(UncoveredDays(optPeriod)))
        /\ (stemPeriod # Null /\ Started(stemPeriod)) =>
               (result.phase2.usedDays = Cardinality(UncoveredDays(stemPeriod)))

C2_Witness ==
    /\ Computed
    /\ Len(employmentSpans) = 2
    /\ DayOf(employmentSpans[1].startDate) > DayOf(employmentSpans[2].startDate)
    /\ SpanDays(employmentSpans[1]) \cap SpanDays(employmentSpans[2]) # {}
    /\ Cardinality(WindowDays(optPeriod)) = 3
    /\ result.phase1.usedDays = 1

(* The period as calculateUnemploymentForPeriod hands it to calculateEmployedDays. *)
AdjustedPeriod(period) ==
    [type |-> period.type,
     startDate |-> normalizeDate(period.startDate),
     endDate |-> minDate(normalizeDate(period.endDate), getNormalizedReferenceDate(now))]

EmployedDaysIn(period) ==
    calculateEmployedDays(employmentSpans, AdjustedPeriod(period),
                          getNormalizedReferenceDate(now))

(* C6: for a period that has started, usedDays plus the employed days (the summed
   length of the merged clamped spans) is the number of days of the effective
   window. *)
C6_AccountingIdentity ==
    Computed =>
        /\ Started(optPeriod) =>
               (result.phase1.usedDays + EmployedDaysIn(optPeriod)
                    = Cardinality(WindowDays(optPeriod)))
        /\ (stemPeriod # Null /\ Started(stemPeriod)) =>
               (result.phase2.usedDays + EmployedDaysIn(stemPeriod)
                    = Cardinality(WindowDays(stemPeriod)))

C6_Witness ==
    /\ Computed
    /\ Len(employmentSpans) = 2
    /\ SpanDays(employmentSpans[1]) \cap SpanDays(employmentSpans[2]) # {}
    /\ Cardinality(WindowDays(optPeriod)) = 3
    /\ EmployedDaysIn(optPeriod) = 2
    /\ result.phase1.usedDays = 1

(* C9: an open-ended span that starts on or before the reference date can be
   replaced by the closed span [start, referenceDate] without changing the
   result. *)
ClosedAtReference(i) ==
    [employmentSpans EXCEPT ![i].endDate = getNormalizedReferenceDate(now)]

C9_OngoingEndsAtReference ==
    (result # Pending) =>
        \A i \in 1..Len(employmentSpans) :
            (/\ employmentSpans[i].endDate = NoDate
             /\ DayOf(employmentSpans[i].startDate) <= ReferenceDay)
            => (calculateUnemployment(optPeriod, stemPeriod, ClosedAtReference(i), now)
                    = result)

C9_Witness ==
    /\ Computed
    /\ Len(employmentSpans) = 1
    /\ employmentSpans[1].endDate = NoDate
    /\ DayOf(employmentSpans[1].startDate) = 1
    /\ DayOf(optPeriod.startDate) = 0
    /\ DayOf(optPeriod.endDate) = 2
    /\ ReferenceDay = 2
    /\ result.phase1.usedDays = 1

(* C10: the result is the same for every order of the employment list. *)
Permutations(n) == {f \in [1..n -> 1..n] : \A k \in 1..n : \E j \in 1..n : f[j] = k}

Reordered(f) == [j \in 1..Len(employmentSpans) |-> employmentSpans[f[j]]]

C10_OrderIndependent ==
    (result # Pending) =>
        \A f \in Permutations(Len(employmentSpans)) :
            calculateUnemployment(optPeriod, stemPeriod, Reordered(f), now) = result

C10_Witness ==
    /\ Computed
    /\ Len(employmentSpans) = 2
    /\ DayOf(employmentSpans[1].startDate) = 2
    /\ DayOf(employmentSpans[2].startDate) = 0
    /\ employmentSpans[2].endDate # NoDate
    /\ DayOf(employmentSpans[2].endDate) = 0
    /\ Cardinality(WindowDays(optPeriod)) = 3
    /\ result.phase1.usedDays = 1

----------------------------------------------------------------------------
(* Properties of the helpers called on their own *)

(* C7: for two clamped spans sorted by start, when the second starts at most one
   calendar day after the first ends (overlapping or back to back) the merger
   returns the single span from the first start to the later end; when it starts
   more than one day after, the merger returns the two spans unchanged. *)
C7_PairMerge ==
    (pc = "done" /\ Len(mIn) = 2) =>
        LET first == mIn[1]
            second == mIn[2]
            gap == DayOf(second.startDate) - DayOf(first.endDate)
        IN  /\ (gap <= 1) =>
                   (mOut = <<[startDate |-> first.startDate,
                              endDate |-> Max2(first.endDate, second.endDate)]>>)
            /\ (gap > 1) => (mOut = mIn)

C7_Witness ==
    /\ pc = "done"
    /\ Len(mIn) = 2
    /\ DayOf(mIn[2].startDate) - DayOf(mIn[1].endDate) = 1
    /\ Len(mOut) = 1
    /\ mOut[1].startDate = mIn[1].startDate
    /\ mOut[1].endDate = mIn[2].endDate

(* C8: with the span's end taken as the reference date when it is open-ended,
   the clamper returns null exactly when the span starts after the period ends
   or ends before the period starts, and otherwise the span from the later start
   to the earlier end; a span touching the period on one boundary day gives a
   one-day span. *)
C8_ClampIsIntersection ==
    (pc = "done" /\ cSpan # Null) =>
        LET spanStartDay == DayOf(cSpan.startDate)
            spanEndDay == IF cSpan.endDate = NoDate
                          THEN DayOf(cRef)
                          ELSE DayOf(cSpan.endDate)
            periodStartDay == DayOf(cPeriod.startDate)
            periodEndDay == DayOf(cPeriod.endDate)
            outside == spanStartDay > periodEndDay \/ spanEndDay < periodStartDay
        IN  /\ (cOut = Null) <=> outside
            /\ ~outside =>
                  (cOut = [startDate |-> Max2(spanStartDay, periodStartDay) * TicksPerDay,
                           endDate |-> Min2(spanEndDay, periodEndDay) * TicksPerDay])
            /\ (spanStartDay = periodEndDay /\ spanEndDay >= spanStartDay) =>
                  (cOut # Null /\ cOut.startDate = cOut.endDate)
            /\ (spanEndDay = periodStartDay /\ spanStartDay <= spanEndDay) =>
                  (cOut # Null /\ cOut.startDate = cOut.endDate)

C8_Witness ==
    /\ pc = "done"
    /\ cSpan # Null
    /\ cSpan.startDate % TicksPerDay # 0
    /\ DayOf(cSpan.startDate) = DayOf(cPeriod.endDate)
    /\ DayOf(cPeriod.startDate) < DayOf(cPeriod.endDate)
    /\ cOut # Null
    /\ cOut.startDate = cOut.endDate
    /\ cOut.startDate = normalizeDate(cPeriod.endDate)

(* C11: merging is idempotent: for clamped spans sorted by start, the merger
   applied to its own output returns that output unchanged. *)
C11_MergeIdempotent ==
    (pc = "done") => (mergeOverlappingSpans(mOut) = mOut)

C11_Witness ==
    /\ pc = "done"
    /\ Len(mIn) = 3
    /\ Len(mOut) = 2
    /\ mergeOverlappingSpans(mOut) = mOut

(* The days a list of clamped spans covers. *)
CoveredDays(spans) ==
    UNION {DayOf(spans[i].startDate)..DayOf(spans[i].endDate) : i \in 1..Len(spans)}

(* C20: for well-formed clamped spans sorted by start, the merger's output is
   ascending, pairwise disjoint and non-adjacent (each span starts more than one
   calendar day after the previous one ends) and covers exactly the days of the
   input; an empty input gives an empty output. *)
C20_MergedShape ==
    (pc = "done") =>
        /\ \A i \in 1..Len(mOut) : mOut[i].startDate <= mOut[i].endDate
        /\ \A i \in 1..(Len(mOut) - 1) :
               DayOf(mOut[i + 1].startDate) - DayOf(mOut[i].endDate) > 1
        /\ CoveredDays(mOut) = CoveredDays(mIn)
        /\ (mIn = <<>>) => (mOut = <<>>)

C20_Witness ==
    /\ pc = "done"
    /\ Len(mIn) = 3
    /\ \E i \in 1..2 : DayOf(mIn[i + 1].startDate) - DayOf(mIn[i].endDate) = 1
    /\ Len(mOut) = 1
    /\ CoveredDays(mOut) = CoveredDays(mIn)

----------------------------------------------------------------------------
(* Further properties of the calculation *)

(* C12: when the reference date is before the period's start, the period's
   summary has usedDays = 0, remainingDays = the limit passed in and percentage
   = 0, whatever the employment spans are. *)
NotBegun(summary) ==
    /\ summary.usedDays = 0
    /\ summary.remainingDays = summary.limitDays
    /\ summary.percentage.num = 0

C12_NotBegunPeriod ==
    Computed =>
        /\ ~Started(optPeriod) =>
               (NotBegun(result.phase1) /\ result.phase1.remainingDays = 90)
        /\ (stemPeriod # Null /\ ~Started(stemPeriod)) =>
               (/\ NotBegun(result.phase2)
                /\ result.phase2.remainingDays = Max2(0, 150 - result.phase1.usedDays))

C12_Witness ==
    /\ Computed
    /\ ~Started(optPeriod)
    /\ Len(employmentSpans) = 2
    /\ \A i \in 1..2 :
           /\ employmentSpans[i].endDate # NoDate
           /\ DayOf(employmentSpans[i].startDate) <= ReferenceDay
           /\ DayOf(employmentSpans[i].endDate) >= DayOf(optPeriod.startDate)
    /\ NotBegun(result.phase1)

StatusFor(used, allowed) ==
    IF used > allowed
    THEN "violation"
    ELSE IF 5 * used >= 4 * allowed THEN "warning" ELSE "normal"

(* C16: without a STEM period and without employment, for an OPT period that
   has started, phase1.usedDays is the inclusive day count from the period's
   start to min(periodEnd, referenceDate), and the status is the one that count
   gives against an allowance of 90. *)
C16_NoEmployment ==
    (Computed /\ stemPeriod = Null /\ employmentSpans = <<>> /\ Started(optPeriod)) =>
        /\ result.phase1.usedDays
               = EffectiveEndDay(optPeriod) - DayOf(optPeriod.startDate) + 1
        /\ result.totalAllowedDays = 90
        /\ result.status = StatusFor(result.phase1.usedDays, 90)

C16_Witness ==
    /\ Computed
    /\ stemPeriod = Null
    /\ employmentSpans = <<>>
    /\ DayOf(optPeriod.startDate) = 1
    /\ ReferenceDay = 72
    /\ result.phase1.usedDays = 72
    /\ result.status = "warning"

(* C17: without a STEM period, when one employment span runs from the OPT
   period's start date to its end date, phase1.usedDays = 0 and the status is
   "normal" at every reference date. *)
C17_FullyEmployed ==
    (/\ Computed
     /\ stemPeriod = Null
     /\ \E i \in 1..Len(employmentSpans) :
            /\ employmentSpans[i].endDate # NoDate
            /\ DayOf(employmentSpans[i].startDate) = DayOf(optPeriod.startDate)
            /\ DayOf(employmentSpans[i].endDate) = DayOf(optPeriod.endDate))
    => (result.phase1.usedDays = 0 /\ result.status = "normal")

C17_Witness ==
    /\ Computed
    /\ stemPeriod = Null
    /\ Len(employmentSpans) = 1
    /\ employmentSpans[1].endDate # NoDate
    /\ DayOf(employmentSpans[1].startDate) = DayOf(optPeriod.startDate)
    /\ DayOf(employmentSpans[1].endDate) = DayOf(optPeriod.endDate)
    /\ DayOf(optPeriod.endDate) - DayOf(optPeriod.startDate) > 90
    /\ ReferenceDay > DayOf(optPeriod.startDate) + 90
    /\ result.phase1.usedDays = 0
    /\ result.status = "normal"

(* C18: without a STEM period, an OPT period with exactly 80 uncovered days in
   its effective window gives phase1.usedDays = 80, totalAllowedDays = 90 and
   status "warning". *)
C18_EightyDays ==
    (/\ Computed
     /\ stemPeriod = Null
     /\ Started(optPeriod)
     /\ Cardinality(UncoveredDays(optPeriod)) = 80)
    => (/\ result.phase1.usedDays = 80
        /\ result.totalAllowedDays = 90
        /\ result.status = "warning")

C18_Witness ==
    /\ Computed
    /\ stemPeriod = Null
    /\ Len(employmentSpans) = 1
    /\ Cardinality(WindowDays(optPeriod)) > 80
    /\ Cardinality(UncoveredDays(optPeriod)) = 80
    /\ result.phase1.usedDays = 80
    /\ result.status = "warning"

(* C19: when the OPT period is fully covered by employment and a STEM period
   with exactly 10 uncovered days in its effective window is supplied, the
   result has phase2.limitDays = 150, phase2.usedDays = 10, totalUsedDays = 10
   and status "normal". *)
C19_StemTenDays ==
    (/\ Computed
     /\ stemPeriod # Null
     /\ Started(stemPeriod)
     /\ UncoveredDays(optPeriod) = {}
     /\ Cardinality(UncoveredDays(stemPeriod)) = 10)
    => (/\ result.phase1.usedDays = 0
        /\ result.phase2.limitDays = 150
        /\ result.phase2.usedDays = 10
        /\ result.totalUsedDays = 10
        /\ result.status = "normal")

C19_Witness ==
    /\ Computed
    /\ stemPeriod # Null
    /\ Len(employmentSpans) = 1
    /\ Cardinality(WindowDays(optPeriod)) > 90
    /\ UncoveredDays(optPeriod) = {}
    /\ Cardinality(UncoveredDays(stemPeriod)) = 10
    /\ result.phase2.limitDays = 150
    /\ result.totalUsedDays = 10
    /\ result.status = "normal"

----------------------------------------------------------------------------
(* Properties of the validators *)

Blank(name) == \A i \in 1..Len(name) : name[i] = " "

(* C14: validateEmploymentSpan returns an error message exactly when the
   employer name is empty or only whitespace, or the start date is absent, or an
   end date is present and is before the start date; it returns null otherwise,
   in particular for an absent end date and for an end equal to the start. *)
C14_SpanValidation ==
    (vSpanOut # "pending") =>
        /\ (vSpanOut # "null") <=>
               \/ Blank(vSpan.employerName)
               \/ vSpan.startDate = NoDate
               \/ (vSpan.endDate # NoDate /\ vSpan.endDate < vSpan.startDate)
        /\ (/\ ~Blank(vSpan.employerName)
            /\ vSpan.startDate # NoDate
            /\ vSpan.endDate \in {NoDate, vSpan.startDate}) => (vSpanOut = "null")

C14_Witness ==
    /\ vSpanOut = "null"
    /\ Len(vSpan.employerName) = 3
    /\ vSpan.startDate # NoDate
    /\ vSpan.endDate = vSpan.startDate

(* C15: validateEADPeriod returns an error message exactly when the start date
   is absent, or the end date is absent, or the end date is before the start
   date; it returns null otherwise, so every accepted period has end >= start. *)
C15_PeriodValidation ==
    (vPeriodOut # "pending") =>
        /\ (vPeriodOut # "null") <=>
               \/ vPeriod.startDate = NoDate
               \/ vPeriod.endDate = NoDate
               \/ vPeriod.endDate < vPeriod.startDate
        /\ (vPeriodOut = "null") =>
               (/\ vPeriod.startDate # NoDate
                /\ vPeriod.endDate # NoDate
                /\ vPeriod.endDate >= vPeriod.startDate)

C15_Witness ==
    /\ vPeriodOut = "null"
    /\ vPeriod.startDate # NoDate
    /\ vPeriod.endDate = vPeriod.startDate

----------------------------------------------------------------------------
(* Properties of every period summary *)

Summaries ==
    {result.phase1} \cup (IF result.phase2 = Null THEN {} ELSE {result.phase2})

(* C21: in every period summary remainingDays = max(0, limitDays - usedDays);
   hence 0 <= remainingDays <= limitDays, and usedDays + remainingDays =
   limitDays whenever usedDays <= limitDays. *)
C21_RemainingDays ==
    Computed =>
        \A summary \in Summaries :
            /\ summary.remainingDays =
                   (IF summary.limitDays - summary.usedDays > 0
                    THEN summary.limitDays - summary.usedDays
                    ELSE 0)
            /\ 0 <= summary.remainingDays
            /\ summary.remainingDays <= summary.limitDays
            /\ (summary.usedDays <= summary.limitDays) =>
                   (summary.usedDays + summary.remainingDays = summary.limitDays)

C21_Witness ==
    /\ Computed
    /\ result.phase1.usedDays > result.phase1.limitDays
    /\ result.phase1.remainingDays = 0
    /\ result.phase2 # Null
    /\ result.phase2.usedDays > 0
    /\ result.phase2.usedDays < result.phase2.limitDays

(* C22: in every period summary percentage = usedDays / limitDays x 100 when
   limitDays > 0, not capped at 100; when limitDays = 0 it is 100 if usedDays > 0
   and 0 if usedDays = 0; in all cases it is 0 exactly when usedDays = 0. *)
C22_Percentage ==
    Computed =>
        \A summary \in Summaries :
            LET pct == summary.percentage
            IN  /\ (summary.limitDays > 0) =>
                       (pct.num * summary.limitDays = summary.usedDays * 100 * pct.den)
                /\ (summary.limitDays = 0 /\ summary.usedDays > 0) =>
                       (pct.num = 100 * pct.den)
                /\ (summary.limitDays = 0 /\ summary.usedDays = 0) => (pct.num = 0)
                /\ (pct.num = 0) <=> (summary.usedDays = 0)

C22_Witness ==
    /\ Computed
    /\ result.phase1.percentage.num > 100 * result.phase1.percentage.den
    /\ result.phase2 # Null
    /\ result.phase2.limitDays = 0
    /\ result.phase2.usedDays > 0
    /\ result.phase2.percentage.num = 100 * result.phase2.percentage.den

----------------------------------------------------------------------------
(* The result as the clock moves on *)

Rank(status) ==
    CASE status = "normal" -> 0
      [] status = "warning" -> 1
      [] status = "violation" -> 2

(* The last day of the periods entered. *)
PeriodsEndDay ==
    IF stemPeriod = Null
    THEN DayOf(optPeriod.endDate)
    ELSE Max2(DayOf(optPeriod.endDate), DayOf(stemPeriod.endDate))

(* C24: with the periods and the employment list held fixed, as the reference
   date advances day by day totalUsedDays never decreases and the status never
   improves (once "violation", "violation" at every later reference date); and
   once the reference date is on or after the end of every period the result no
   longer changes. *)
C24_ClockMonotone ==
    [][(Computed /\ Computed') =>
          /\ now' > now
          /\ result'.totalUsedDays >= result.totalUsedDays
          /\ Rank(result'.status) >= Rank(result.status)
          /\ (result.status = "violation") => (result'.status = "violation")
          /\ (ReferenceDay >= PeriodsEndDay) => (result' = result)]_vars

C24_Witness ==
    /\ Computed
    /\ ReferenceDay > PeriodsEndDay
    /\ result.status = "violation"
    /\ Len(employmentSpans) = 1
    /\ employmentSpans[1].endDate = NoDate
    /\ DayOf(employmentSpans[1].startDate) > 0
    /\ DayOf(employmentSpans[1].startDate) <= PeriodsEndDay

----------------------------------------------------------------------------
(* The first-phase limit *)

(* C25: whenever phase1.usedDays exceeds the first-phase limit of 90, the overall
   status is "violation", whether or not a STEM period is supplied. *)
C25_OptLimitIsViolation ==
    Computed =>
        ((result.phase1.usedDays > OPT_UNEMPLOYMENT_LIMIT) => (result.status = "violation"))

----------------------------------------------------------------------------
(* One more employment span *)

(* C26: for fixed periods and reference date, adding one more validated
   employment span to the list never increases phase1.usedDays, phase2.usedDays
   or totalUsedDays, and never worsens the status. *)
C26_MoreEmploymentNeverHurts ==
    [][(Computed /\ Computed' /\ Len(employmentSpans') = Len(employmentSpans) + 1) =>
          /\ now' = now
          /\ optPeriod' = optPeriod
          /\ stemPeriod' = stemPeriod
          /\ result'.phase1.usedDays <= result.phase1.usedDays
          /\ (stemPeriod # Null) =>
                 (result'.phase2.usedDays <= result.phase2.usedDays)
          /\ result'.totalUsedDays <= result.totalUsedDays
          /\ Rank(result'.status) <= Rank(result.status)]_vars

C26_Witness ==
    /\ Computed
    /\ Len(employmentSpans) = 2
    /\ result.status = "normal"
    /\ result.phase1.usedDays > 0
    /\ calculateUnemployment(optPeriod, stemPeriod,
                             <<employmentSpans[1]>>, now).status = "violation"

----------------------------------------------------------------------------
(* The clamped spans inside a calculation *)

ClampedIn(period) ==
    ClampAll(employmentSpans, AdjustedPeriod(period), getNormalizedReferenceDate(now))

WellClamped(period, summary) ==
    LET clamped == ClampedIn(period)
        window == Cardinality(WindowDays(period))
        employed == EmployedDaysIn(period)
    IN  /\ \A i \in 1..Len(clamped) : clamped[i].startDate <= clamped[i].endDate
        /\ 0 <= employed
        /\ employed <= window
        /\ summary.usedDays = window - employed

(* C27: for every input the two validators accept (open-ended spans that start
   after the reference date and spans that end after it included), every clamped
   span produced inside a calculation has start <= end, and the employed-day
   total of a period lies between 0 and the day count of its effective window,
   so the floor at zero on usedDays never changes the value. *)
C27_ClampedSpansWellFormed ==
    Computed =>
        /\ Started(optPeriod) => WellClamped(optPeriod, result.phase1)
        /\ (stemPeriod # Null /\ Started(stemPeriod)) =>
               WellClamped(stemPeriod, result.phase2)

C27_Witness ==
    /\ Computed
    /\ Started(optPeriod)
    /\ Len(employmentSpans) = 2
    /\ employmentSpans[1].endDate = NoDate
    /\ DayOf(employmentSpans[1].startDate) > ReferenceDay
    /\ employmentSpans[2].endDate # NoDate
    /\ DayOf(employmentSpans[2].endDate) > ReferenceDay
    /\ Len(ClampedIn(optPeriod)) = 1
    /\ result.phase1.usedDays > 0

----------------------------------------------------------------------------
(* Two periods that share days *)

StartedWindow(period) ==
    IF period # Null /\ Started(period) THEN WindowDays(period) ELSE {}

(* C28: for any two individually valid periods, overlapping ones included,
   totalUsedDays never exceeds the number of distinct calendar days in the union
   of the two effective windows that no employment span covers. *)
C28_NoDayCountedTwice ==
    (Computed /\ stemPeriod # Null) =>
        (result.totalUsedDays <=
            Cardinality({day \in StartedWindow(optPeriod) \cup StartedWindow(stemPeriod) :
                            ~EmployedOn(day)}))

----------------------------------------------------------------------------
(* The calendar export *)

(* The DTSTART values of the events, in the order of the file. *)
RECURSIVE EventStarts(_, _)
EventStarts(lines, i) ==
    IF i > Len(lines)
    THEN <<>>
    ELSE IF lines[i].name = "DTSTART"
         THEN <<lines[i].value>> \o EventStarts(lines, i + 1)
         ELSE EventStarts(lines, i + 1)

(* C23: createUnemploymentICS returns null exactly when the first period is
   absent; otherwise its first two reminder events fall on firstPeriodStart + 89
   days and firstPeriodStart + 149 days (the limits 90 and 150 minus one), and a
   third event on the second period's end date is present exactly when a second
   period is supplied. *)
C23_ReminderDates ==
    (ics # Pending) =>
        /\ (ics = Null) <=> (optPeriod = Null)
        /\ (optPeriod # Null) =>
               LET starts == EventStarts(ics.lines, 1)
                   first == optPeriod.startDate
               IN  /\ Len(starts) = (IF stemPeriod # Null THEN 3 ELSE 2)
                   /\ starts[1].yyyyMMdd = DayOf(first) + 89
                   /\ starts[1].yyyyMMdd = DayOf(first) + OPT_UNEMPLOYMENT_LIMIT - 1
                   /\ starts[1].HHmmss = first % TicksPerDay
                   /\ starts[2].yyyyMMdd = DayOf(first) + 149
                   /\ starts[2].yyyyMMdd =
                          DayOf(first) + TOTAL_UNEMPLOYMENT_LIMIT_WITH_STEM - 1
                   /\ starts[2].HHmmss = first % TicksPerDay
                   /\ (stemPeriod # Null) =>
                          /\ starts[3].yyyyMMdd = DayOf(stemPeriod.endDate)
                          /\ starts[3].HHmmss = stemPeriod.endDate % TicksPerDay

C23_Witness ==
    /\ ics # Pending
    /\ optPeriod # Null
    /\ stemPeriod # Null
    /\ optPeriod.startDate % TicksPerDay # 0
    /\ DayOf(optPeriod.startDate) > 0
    /\ Len(EventStarts(ics.lines, 1)) = 3

----------------------------------------------------------------------------
(* The employment form *)

(* C29: after any sequence of edit, add/update, delete, cancel and clear-all
   actions, editingId is either null or the id of an employment record that
   still exists in the store. *)
C29_EditingIdExists ==
    isEditing => (\E i \in 1..Len(employmentSpans) : employmentSpans[i].id = editingId)

----------------------------------------------------------------------------
(* The status resets of the App component *)

(* C30: for every interleaving of copySummary and exportDeadlines, each of
   copyStatus and exportStatus that became non-idle returns to "idle" once the
   pending 3-second timers have fired: with no timer pending and no copy under
   way, neither status is "copied", "success" or "error". *)
C30_StatusesReturnToIdle ==
    (timers = <<>> /\ copyCalls = 0) =>
        (copyStatus = "idle" /\ exportStatus = "idle")

====
